---- MODULE Spec2Model ----
(***************************************************************************)
(* Model of omt-send-test-rs (src/src/main.rs): the Test Runner `main`,    *)
(* the Session Driver `run_send_test`, the return-code table               *)
(* `interpret_return_code`, and a fake of the native transport that        *)
(* records every call made on it.                                          *)
(*                                                                         *)
(* run_send_test is one sequential function; it is cut into one action per *)
(* interaction with the transport (create, one connection poll, the setup  *)
(* block, one loop iteration, the final block).  The transport's answers   *)
(* (handle or null, connection count, return code) are the inputs, chosen  *)
(* with \E.                                                                *)
(*                                                                         *)
(* Two harnesses start the program: "main" is the binary's own main() over *)
(* the built-in catalogue, and "test" calls run_send_test directly with a  *)
(* small format and duration, the way a unit test against a fake transport *)
(* does.                                                                   *)
(***************************************************************************)
EXTENDS Integers, Sequences, FiniteSets, TLC

VARIABLES
    harness,          \* "main" | "test": who calls run_send_test
    fake_codes,       \* the return codes the fake transport is set up to give
    fake_slow,        \* whether the fake's omt_send may take time
    arg,              \* main: args.get(1), NoArg when absent
    formats_to_test,  \* main: the formats still to iterate (line 384)
    mpc,              \* main: position in main()
    exit_code,        \* main: process exit status, -1 while running
    attempted,        \* main: <<name, use_alpha>> of every run_send_test call
    pc,               \* run_send_test: position
    format,           \* run_send_test: parameter
    duration_secs,    \* run_send_test: parameter
    use_alpha,        \* run_send_test: parameter
    sender,           \* run_send_test: the handle, NULL when none
    connected,        \* run_send_test: local of the wait loop
    wait_i,           \* run_send_test: loop variable of `for i in 0..30`
    frame,            \* run_send_test: the OMTMediaFrame
    frame_buf,        \* run_send_test: length of the pattern buffer
    ticks_per_frame,  \* run_send_test: local
    pts,              \* run_send_test: local
    frames_to_send,   \* run_send_test: local
    i,                \* run_send_test: loop variable of the send loop
    stats_counter,    \* run_send_test: local
    stats_interval,   \* run_send_test: local
    frame_duration,   \* run_send_test: local, in microseconds
    start_time,       \* run_send_test: local, an instant (microseconds)
    next_frame_time,  \* run_send_test: local, an instant (microseconds)
    clock,            \* the monotonic clock read by Instant::now()
    result,           \* run_send_test: "none" while running, then Ok or the error
    logfile,          \* transport: the logging file name set
    n_create,         \* transport: omt_send_create calls so far
    live,             \* transport: handles created and not destroyed
    destroys,         \* transport: omt_send_destroy calls on the current handle
    subs,             \* transport: the omt_send calls of the current session
    calls             \* transport: other calls of the current session, counted

mainVars == <<harness, fake_codes, fake_slow, arg, formats_to_test, mpc, exit_code, attempted>>
paramVars == <<format, duration_secs, use_alpha>>
localVars == <<sender, connected, wait_i, frame, frame_buf, ticks_per_frame, pts,
               frames_to_send, i, stats_counter, stats_interval, frame_duration,
               start_time, next_frame_time, clock>>
fakeVars == <<logfile, n_create, live, destroys, subs, calls>>
vars == <<mainVars, paramVars, localVars, fakeVars, pc, result>>

----------------------------------------------------------------------------
(* Bounds and program constants *)

\* Longest duration (seconds) the test harness passes to run_send_test.
MaxDuration == 2

\* Largest width and height of the formats that exercise the pattern buffer.
MaxDim == 4

NULL == 0
WaitAttempts == 30
BackpressureCode == 26984
ticks_per_sec == 10000000
micros_per_sec == 1000000
BackpressureSleep == 100000
MainDuration == 5

INT_MAX == 2147483647
INT_MIN == -2147483647 - 1

NoArg == "<none>"

----------------------------------------------------------------------------
(* VideoFormat *)

stride(f) ==
    CASE f.codec = "UYVY" -> f.width * 2
      [] f.codec = "BGRA" -> f.width * 4
      [] f.codec = "NV12" -> f.width
      [] OTHER -> f.width * 4

buffer_size(f) ==
    CASE f.codec = "UYVY" -> stride(f) * f.height
      [] f.codec = "BGRA" -> stride(f) * f.height
      [] f.codec = "NV12" -> (f.width * f.height) + ((f.width * f.height) \div 2)
      [] OTHER -> stride(f) * f.height

\* A faulty variant: the vector of an NV12 frame holds the Y plane only.
create_test_frame_luma_only(f) == stride(f) * f.height

\* Lines 46-107: the vector is allocated with buffer_size() bytes (line 47),
\* filled in place and returned (line 106); there is no other way out.  The
\* vector is modelled by its length.
create_test_frame(f) == buffer_size(f)

\* The catalogue of main().
formats == <<
    [codec |-> "UYVY", width |-> 1280, height |-> 720, fps_n |-> 30, fps_d |-> 1,
     name |-> "UYVY_720p30"],
    [codec |-> "UYVY", width |-> 1920, height |-> 1080, fps_n |-> 30, fps_d |-> 1,
     name |-> "UYVY_1080p30"],
    [codec |-> "BGRA", width |-> 1280, height |-> 720, fps_n |-> 30, fps_d |-> 1,
     name |-> "BGRA_720p30"],
    [codec |-> "BGRA", width |-> 1920, height |-> 1080, fps_n |-> 30, fps_d |-> 1,
     name |-> "BGRA_1080p30"],
    [codec |-> "NV12", width |-> 1280, height |-> 720, fps_n |-> 30, fps_d |-> 1,
     name |-> "NV12_720p30"] >>

\* The formats the test harness passes to a fake that may refuse frames:
\* small rates, which keep the number of frames of a session small.  With 3/2
\* neither floor (frames_to_send, ticks_per_frame) is exact.
TestFormats ==
    { [codec |-> "UYVY", width |-> 4, height |-> 2, fps_n |-> r[1], fps_d |-> r[2],
       name |-> "T"] : r \in {<<2, 1>>, <<3, 2>>, <<4, 2>>} }

\* The format passed to the fake whose omt_send may take time.
SlowFormats ==
    { [codec |-> "UYVY", width |-> 4, height |-> 2, fps_n |-> 3, fps_d |-> 2,
       name |-> "S"] }

\* The formats that exercise the pattern buffer: each encoding, and one the
\* program does not know, in every size up to MaxDim x MaxDim, at 1/1.
Codecs == {"UYVY", "BGRA", "NV12", "YUY2"}

FrameFormats ==
    { [codec |-> c, width |-> w, height |-> h, fps_n |-> 1, fps_d |-> 1,
       name |-> "F"] : c \in Codecs, w \in 1..MaxDim, h \in 1..MaxDim }

----------------------------------------------------------------------------
(* interpret_return_code and the test the loop makes on its result *)

\* A faulty variant: without the arm for the other positive codes.
interpret_return_code_without_positive_arm(rc) ==
    CASE rc = 0 -> "Success"
      [] rc \in {12428, 19448, 29843, 39293} -> "Frame queued/processing (non-fatal)"
      [] rc = 26984 -> "Buffer overflow or encoding error"
      [] rc = -1 -> "General error"
      [] OTHER -> "Unknown error"

interpret_return_code(rc) ==
    CASE rc = 0 -> "Success"
      [] rc \in {12428, 19448, 29843, 39293} -> "Frame queued/processing (non-fatal)"
      [] rc = 26984 -> "Buffer overflow or encoding error"
      [] rc = -1 -> "General error"
      [] OTHER -> IF rc > 0 THEN "Status/warning code (may be non-fatal)"
                            ELSE "Unknown error"

\* str::contains
contains(s, pat) ==
    \E k \in 1..(Len(s) - Len(pat) + 1) : SubSeq(s, k, k + Len(pat) - 1) = pat

----------------------------------------------------------------------------
(* The fake transport *)

\* The codes of the classifier table of the specification (section 8).
RC == {0, 12428, 19448, 26984, 29843, 39293, -1, 1, 99999, INT_MIN, INT_MAX}

\* omt_send_connections returns a non-negative count.
Conns == {0, 1}

\* In a record of an omt_send call: omt_send_connections was not called after it.
NotRead == -1

\* A fake is set up with the codes it may return.  Under the test harness:
\* success, backpressure and one more code of the table; or success only.
\* Under main (150 frames a session) a fake that accepts every frame or fails
\* with -1.
AcceptingFake == {0}
TestFakes == { {0, BackpressureCode, c} : c \in RC \ {0, BackpressureCode} }
                \cup {AcceptingFake}
MainFakes == { {0, -1} }

\* The codes of the fake whose omt_send may take time.
SlowFake == {0, BackpressureCode}

\* The formats the test harness passes to a fake of the given codes: the
\* catalogue's formats (30/1) to the fake that accepts every frame, the small
\* ones otherwise.
FormatsFor(codes) ==
    IF fake_slow THEN SlowFormats
    ELSE IF codes = AcceptingFake
    THEN { formats[k] : k \in 1..Len(formats) } \cup FrameFormats
    ELSE TestFormats

\* The other calls of a session: omt_send_setsenderinformation, counted, and
\* omt_send_getvideostatistics, each recorded with the number of omt_send calls
\* made before it (n_subs: that number at the time of the call).
NoCalls == [setsenderinformation |-> 0, getvideostatistics |-> << >>]

SetInfoCalled == [calls EXCEPT !.setsenderinformation = @ + 1]

StatsCalled(n_subs) == [calls EXCEPT !.getvideostatistics = Append(@, n_subs)]

ZeroFrame == [Codec |-> "", Width |-> 0, Height |-> 0, Stride |-> 0, Flags |-> "",
              FrameRateN |-> 0, FrameRateD |-> 0, ColorSpace |-> "", DataLength |-> 0,
              Timestamp |-> 0]

----------------------------------------------------------------------------
(* run_send_test *)

\* Entry: the caller's call.  Locals and the fake's per-session record start
\* afresh; the transport's own state (live handles, log file) stays.
Call(f, d, a) ==
    /\ format' = f
    /\ duration_secs' = d
    /\ use_alpha' = a
    /\ pc' = "create"
    /\ result' = "none"
    /\ sender' = NULL
    /\ connected' = FALSE
    /\ wait_i' = 0
    /\ frame' = ZeroFrame
    /\ frame_buf' = 0
    /\ ticks_per_frame' = 0
    /\ pts' = 0
    /\ frames_to_send' = 0
    /\ i' = 0
    /\ stats_counter' = 0
    /\ stats_interval' = 0
    /\ frame_duration' = 0
    /\ start_time' = 0
    /\ next_frame_time' = 0
    /\ clock' = 0
    /\ destroys' = 0
    /\ subs' = << >>
    /\ calls' = NoCalls

\* A faulty variant: the null check of line 133 is missing.
CreateIgnoresNull ==
    /\ pc = "create"
    /\ logfile' = "/tmp/omt-send.log"
    /\ n_create' = n_create + 1
    /\ \E h \in {NULL, n_create + 1} :
          /\ sender' = h
          /\ live' = IF h = NULL THEN live ELSE live \cup {h}
          /\ pc' = "wait"
          /\ UNCHANGED result
    /\ UNCHANGED <<mainVars, paramVars, connected, wait_i, frame, frame_buf,
                   ticks_per_frame, pts, frames_to_send, i, stats_counter,
                   stats_interval, frame_duration, start_time, next_frame_time,
                   clock, destroys, subs, calls>>

\* Lines 126-135: set the log file, create the sender, bail on null.
Create ==
    /\ pc = "create"
    /\ logfile' = "/tmp/omt-send.log"
    /\ n_create' = n_create + 1
    /\ \E h \in {NULL, n_create + 1} :
          IF h = NULL
          THEN /\ result' = "omt_send_create failed"
               /\ pc' = "return"
               /\ UNCHANGED <<sender, live>>
          ELSE /\ sender' = h
               /\ live' = live \cup {h}
               /\ pc' = "wait"
               /\ UNCHANGED result
    /\ UNCHANGED <<mainVars, paramVars, connected, wait_i, frame, frame_buf,
                   ticks_per_frame, pts, frames_to_send, i, stats_counter,
                   stats_interval, frame_duration, start_time, next_frame_time,
                   clock, destroys, subs, calls>>

\* A faulty variant: the `break` of line 143 is missing.
WaitPollNeverBreaks ==
    /\ pc = "wait"
    /\ wait_i < WaitAttempts
    /\ \E c \in Conns :
          /\ connected' = (connected \/ c > 0)
          /\ wait_i' = wait_i + 1
          /\ pc' = IF wait_i + 1 < WaitAttempts THEN "wait" ELSE "setup"
    /\ UNCHANGED <<mainVars, paramVars, sender, frame, frame_buf, ticks_per_frame,
                   pts, frames_to_send, i, stats_counter, stats_interval,
                   frame_duration, start_time, next_frame_time, clock, result,
                   fakeVars>>

\* Lines 140-147: one iteration of `for i in 0..30`.
WaitPoll ==
    /\ pc = "wait"
    /\ wait_i < WaitAttempts
    /\ \E c \in Conns :
          IF c > 0
          THEN /\ connected' = TRUE
               /\ pc' = "setup"
               /\ UNCHANGED wait_i
          ELSE /\ wait_i' = wait_i + 1
               /\ pc' = IF wait_i + 1 < WaitAttempts THEN "wait" ELSE "setup"
               /\ UNCHANGED connected
    /\ UNCHANGED <<mainVars, paramVars, sender, frame, frame_buf, ticks_per_frame,
                   pts, frames_to_send, i, stats_counter, stats_interval,
                   frame_duration, start_time, next_frame_time, clock, result,
                   fakeVars>>

\* Lines 179-183.
Flags(f, a) == IF a /\ f.codec = "BGRA" THEN "Alpha" ELSE "None"

\* Lines 187-191.
ColorSpace(f) == IF f.height < 720 THEN "BT601" ELSE "BT709"

\* Lines 194-203.
DataLength(f) ==
    IF f.codec = "NV12"
    THEN (f.width * f.height) + ((f.width * f.height) \div 2)
    ELSE stride(f) * f.height

\* A faulty variant: the quotient rounded up.
TicksPerFrameRoundedUp(f) == ((ticks_per_sec * f.fps_d) + f.fps_n - 1) \div f.fps_n

\* Line 207.  i64 arithmetic; 10^7 * fps_d stays far inside the range here.
TicksPerFrame(f) == (ticks_per_sec * f.fps_d) \div f.fps_n

\* Line 211.  u32 arithmetic; duration * fps_n stays far inside the range here.
FramesToSend(f, d) == (d * f.fps_n) \div f.fps_d

\* Line 208: Duration::from_secs_f64(fps_d / fps_n).  A Duration counts
\* nanoseconds; time is counted in microseconds here.
FrameDuration(f) == (micros_per_sec * f.fps_d) \div f.fps_n

\* Lines 148-225: the no-peer warning, sender info, the pattern buffer, the
\* frame, the timing locals.  `connected` and the wait loop's variable are not
\* read after line 148; they return to their initial values here.  Time is
\* counted from the Instant::now() of line 212.
Setup ==
    /\ pc = "setup"
    /\ connected' = FALSE
    /\ wait_i' = 0
    /\ calls' = SetInfoCalled
    /\ frame_buf' = create_test_frame(format)
    /\ frame' = [Codec |-> format.codec, Width |-> format.width,
                 Height |-> format.height, Stride |-> stride(format),
                 Flags |-> Flags(format, use_alpha),
                 FrameRateN |-> format.fps_n, FrameRateD |-> format.fps_d,
                 ColorSpace |-> ColorSpace(format),
                 DataLength |-> DataLength(format), Timestamp |-> 0]
    /\ ticks_per_frame' = TicksPerFrame(format)
    /\ pts' = 0
    /\ frames_to_send' = FramesToSend(format, duration_secs)
    /\ stats_counter' = 0
    /\ stats_interval' = format.fps_n
    /\ frame_duration' = FrameDuration(format)
    /\ clock' = 0
    /\ start_time' = 0
    /\ next_frame_time' = 0
    /\ i' = 0
    /\ pc' = IF 0 < FramesToSend(format, duration_secs) THEN "loop" ELSE "final"
    /\ UNCHANGED <<mainVars, paramVars, sender, result,
                   logfile, n_create, live, destroys, subs>>

\* i64::saturating_add.  pts never exceeds duration_secs * 10^7 < 2^63, so the
\* saturating branch is out of reach; the sum is exact.
saturating_add(a, b) == a + b

\* A faulty variant: the deadline is never reset.
NextDeadlineNeverResets(p, T, now) == p + T

\* A faulty variant: a lag of exactly two periods resets the deadline too.
NextDeadlineResetsAtTwo(p, T, now) ==
    IF p + T > now THEN p + T
    ELSE IF now - (p + T) >= T * 2 THEN now + T
    ELSE p + T

\* Lines 276-284: the deadline after the pacing step, from the previous
\* deadline p, the frame period T and the time now read at line 277.
NextDeadline(p, T, now) ==
    IF p + T > now THEN p + T
    ELSE IF now - (p + T) > T * 2 THEN now + T
    ELSE p + T

\* Lines 278-279: how long the pacing step sleeps.
SleepTime(p, T, now) == IF p + T > now THEN (p + T) - now ELSE 0

\* Lines 275-284: the pacing step, at time now.
Pace(now) ==
    /\ next_frame_time' = NextDeadline(next_frame_time, frame_duration, now)
    /\ clock' = now + SleepTime(next_frame_time, frame_duration, now)

\* A faulty variant: the frame counts as sent but pts stays.
AdvanceKeepsPts(now) ==
    /\ pts' = pts
    /\ IF stats_counter + 1 >= stats_interval
       THEN /\ calls' = StatsCalled(Len(subs) + 1)
            /\ stats_counter' = 0
       ELSE /\ stats_counter' = stats_counter + 1
            /\ UNCHANGED calls
    /\ Pace(now)
    /\ i' = i + 1
    /\ pc' = IF i + 1 < frames_to_send THEN "loop" ELSE "final"
    /\ UNCHANGED result

\* Lines 257-285: the frame counts as sent; statistics; pacing; next index.
Advance(now) ==
    /\ pts' = saturating_add(pts, ticks_per_frame)
    /\ IF stats_counter + 1 >= stats_interval
       THEN /\ calls' = StatsCalled(Len(subs) + 1)
            /\ stats_counter' = 0
       ELSE /\ stats_counter' = stats_counter + 1
            /\ UNCHANGED calls
    /\ Pace(now)
    /\ i' = i + 1
    /\ pc' = IF i + 1 < frames_to_send THEN "loop" ELSE "final"
    /\ UNCHANGED result

\* A faulty variant: `continue` in place of `break`.
PeerLostContinues(now) ==
    /\ i' = i + 1
    /\ pc' = IF i + 1 < frames_to_send THEN "loop" ELSE "final"
    /\ clock' = now
    /\ UNCHANGED <<pts, stats_counter, calls, result, next_frame_time>>

\* Lines 235-238: the receiver is gone; break.
PeerLost(now) ==
    /\ pc' = "final"
    /\ clock' = now
    /\ UNCHANGED <<pts, stats_counter, calls, i, result, next_frame_time>>

\* A faulty variant: the frame is retried until the transport takes it.
BackpressureRetriesSameFrame(now) ==
    /\ pc' = "loop"
    /\ clock' = now + BackpressureSleep
    /\ UNCHANGED <<i, pts, stats_counter, calls, result, next_frame_time>>

\* Lines 241-245: sleep 100 ms, then `continue` the for loop.
Backpressure(now) ==
    /\ i' = i + 1
    /\ pc' = IF i + 1 < frames_to_send THEN "loop" ELSE "final"
    /\ clock' = now + BackpressureSleep
    /\ UNCHANGED <<pts, stats_counter, calls, result, next_frame_time>>

\* Lines 250-254: bail.
Fatal(now) ==
    /\ result' = "omt_send failed"
    /\ pc' = "return"
    /\ clock' = now
    /\ UNCHANGED <<pts, stats_counter, calls, i, next_frame_time>>

\* A faulty variant: the backpressure test comes before the connection test.
OnStatusBackpressureFirst(rc, c, now) ==
    IF rc = BackpressureCode THEN Backpressure(now)
    ELSE IF c = 0 THEN PeerLost(now)
    ELSE IF contains(interpret_return_code(rc), "non-fatal") THEN Advance(now)
    ELSE Fatal(now)

\* Lines 231-255: what the loop does with a non-zero rc, the connection count
\* c having been read.
OnStatus(rc, c, now) ==
    IF c = 0 THEN PeerLost(now)
    ELSE IF rc = BackpressureCode THEN Backpressure(now)
    ELSE IF contains(interpret_return_code(rc), "non-fatal") THEN Advance(now)
    ELSE Fatal(now)

\* How long an omt_send call of the fake may take, for frame period T: no
\* time, or (a slow fake) one period, three periods, just over three periods.
CallTimes(T) == IF fake_slow THEN {0, T, 3 * T, (3 * T) + 1} ELSE {0}

\* The fake's record of an omt_send call: the Timestamp submitted, the code
\* returned, the connection count read after it (NotRead if none was), the
\* loop index, the time of the call (at), the deadline in force (deadline),
\* and the time the call returned (now), which is the time line 277 reads.
Submission(rc, c, now) ==
    [ts |-> pts, rc |-> rc, peers |-> c, i |-> i, at |-> clock,
     deadline |-> next_frame_time, now |-> now]

\* Lines 227-285: one iteration of `for i in 0..frames_to_send`.
Send ==
    /\ pc = "loop"
    /\ i < frames_to_send
    /\ frame' = [frame EXCEPT !.Timestamp = pts]
    /\ \E rc \in fake_codes, d \in CallTimes(frame_duration) :
          IF rc = 0
          THEN /\ subs' = Append(subs, Submission(rc, NotRead, clock + d))
               /\ Advance(clock + d)
          ELSE \E c \in Conns :
                  /\ subs' = Append(subs, Submission(rc, c, clock + d))
                  /\ OnStatus(rc, c, clock + d)
    /\ UNCHANGED <<mainVars, paramVars, sender, connected, wait_i, frame_buf,
                   ticks_per_frame, frames_to_send, stats_interval, frame_duration,
                   start_time, logfile, n_create, live, destroys>>

\* Lines 287-307: final statistics, destroy, Ok.
Final ==
    /\ pc = "final"
    /\ calls' = StatsCalled(Len(subs))
    /\ live' = live \ {sender}
    /\ destroys' = destroys + 1
    /\ result' = "Ok"
    /\ pc' = "return"
    /\ UNCHANGED <<mainVars, paramVars, localVars, logfile, n_create, subs>>

----------------------------------------------------------------------------
(* main *)

\* What the command line may hold: nothing, a catalogue name, another word.
Args == {NoArg, "no_such_format"} \cup { formats[k].name : k \in 1..Len(formats) }

\* A faulty variant: the name is not compared.
FilterKeepsAll(fs, name) == fs

\* Iterator::filter
RECURSIVE Filter(_, _)
Filter(fs, name) ==
    IF fs = << >> THEN << >>
    ELSE IF Head(fs).name = name THEN <<Head(fs)>> \o Filter(Tail(fs), name)
    ELSE Filter(Tail(fs), name)

\* Lines 371-381: select the formats; an empty selection returns Ok(()).
MainSelect ==
    /\ mpc = "start"
    /\ LET sel == IF arg # NoArg THEN Filter(formats, arg) ELSE formats IN
          /\ formats_to_test' = sel
          /\ IF sel = << >>
             THEN mpc' = "exit" /\ exit_code' = 0
             ELSE mpc' = "loop" /\ UNCHANGED exit_code
    /\ UNCHANGED <<harness, fake_codes, fake_slow, arg, attempted, paramVars,
                   localVars, fakeVars, pc, result>>

\* Lines 384-385: the next format of the loop, run without alpha.
MainRunFirst ==
    /\ mpc = "loop"
    /\ formats_to_test # << >>
    /\ Call(Head(formats_to_test), MainDuration, FALSE)
    /\ formats_to_test' = Tail(formats_to_test)
    /\ attempted' = Append(attempted, <<Head(formats_to_test).name, FALSE>>)
    /\ mpc' = "first"
    /\ UNCHANGED <<harness, fake_codes, fake_slow, arg, exit_code, logfile,
                   n_create, live>>

\* A faulty variant: an error of the first run ends main with status 1.
MainAfterFirstStopsOnError ==
    /\ mpc = "first"
    /\ pc = "return"
    /\ IF result # "Ok"
       THEN /\ mpc' = "exit"
            /\ exit_code' = 1
            /\ pc' = "idle"
            /\ UNCHANGED <<attempted, paramVars, localVars, fakeVars, result>>
       ELSE IF format.codec = "BGRA"
       THEN /\ Call(format, MainDuration, TRUE)
            /\ attempted' = Append(attempted, <<format.name, TRUE>>)
            /\ mpc' = "alpha"
            /\ UNCHANGED <<logfile, n_create, live, exit_code>>
       ELSE /\ mpc' = "loop"
            /\ pc' = "idle"
            /\ UNCHANGED <<attempted, paramVars, localVars, fakeVars, result, exit_code>>
    /\ UNCHANGED <<harness, fake_codes, fake_slow, arg, formats_to_test>>

\* Lines 385-400: after the first run.  An error: report, sleep, `continue`.
\* Ok and BGRA: run again with alpha.  Otherwise on to the next format.
MainAfterFirst ==
    /\ mpc = "first"
    /\ pc = "return"
    /\ IF result # "Ok"
       THEN /\ mpc' = "loop"
            /\ pc' = "idle"
            /\ UNCHANGED <<attempted, paramVars, localVars, fakeVars, result>>
       ELSE IF format.codec = "BGRA"
       THEN /\ Call(format, MainDuration, TRUE)
            /\ attempted' = Append(attempted, <<format.name, TRUE>>)
            /\ mpc' = "alpha"
            /\ UNCHANGED <<logfile, n_create, live>>
       ELSE /\ mpc' = "loop"
            /\ pc' = "idle"
            /\ UNCHANGED <<attempted, paramVars, localVars, fakeVars, result>>
    /\ UNCHANGED <<harness, fake_codes, fake_slow, arg, formats_to_test, exit_code>>

\* Lines 395-400: after the alpha run, whatever it returned.
MainAfterAlpha ==
    /\ mpc = "alpha"
    /\ pc = "return"
    /\ mpc' = "loop"
    /\ pc' = "idle"
    /\ UNCHANGED <<harness, fake_codes, fake_slow, arg, formats_to_test, exit_code,
                   attempted, paramVars, localVars, fakeVars, result>>

\* Lines 403-423: the loop is over; scan the log; Ok(()).
MainFinish ==
    /\ mpc = "loop"
    /\ formats_to_test = << >>
    /\ mpc' = "exit"
    /\ exit_code' = 0
    /\ UNCHANGED <<harness, fake_codes, fake_slow, arg, formats_to_test, attempted,
                   paramVars, localVars, fakeVars, pc, result>>

----------------------------------------------------------------------------
(* The test harness: one direct call of run_send_test *)

TestCall ==
    /\ mpc = "test"
    /\ \E f \in FormatsFor(fake_codes), d \in 1..MaxDuration : Call(f, d, FALSE)
    /\ mpc' = "called"
    /\ UNCHANGED <<harness, fake_codes, fake_slow, arg, formats_to_test, exit_code,
                   attempted, logfile, n_create, live>>

----------------------------------------------------------------------------
(* The specification *)

Init ==
    /\ \/ /\ harness = "main" /\ mpc = "start" /\ arg \in Args
          /\ fake_codes \in MainFakes /\ fake_slow = FALSE
       \/ /\ harness = "test" /\ mpc = "test" /\ arg = NoArg
          /\ \/ fake_codes \in TestFakes /\ fake_slow = FALSE
             \/ fake_codes = SlowFake /\ fake_slow = TRUE
    /\ formats_to_test = << >>
    /\ exit_code = -1
    /\ attempted = << >>
    /\ pc = "idle"
    /\ format = formats[1]
    /\ duration_secs = 0
    /\ use_alpha = FALSE
    /\ sender = NULL
    /\ connected = FALSE
    /\ wait_i = 0
    /\ frame = ZeroFrame
    /\ frame_buf = 0
    /\ ticks_per_frame = 0
    /\ pts = 0
    /\ frames_to_send = 0
    /\ i = 0
    /\ stats_counter = 0
    /\ stats_interval = 0
    /\ frame_duration = 0
    /\ start_time = 0
    /\ next_frame_time = 0
    /\ clock = 0
    /\ result = "none"
    /\ logfile = ""
    /\ n_create = 0
    /\ live = {}
    /\ destroys = 0
    /\ subs = << >>
    /\ calls = NoCalls

Next ==
    \/ MainSelect
    \/ MainRunFirst
    \/ MainAfterFirst
    \/ MainAfterAlpha
    \/ MainFinish
    \/ TestCall
    \/ Create
    \/ WaitPoll
    \/ Setup
    \/ Send
    \/ Final

Spec == Init /\ [][Next]_vars

\* One session on its own: run_send_test called directly, each step taken
\* once it can be (every transport call and every sleep returns).
InitSession == Init /\ harness = "test"

NextSession ==
    \/ TestCall
    \/ Create
    \/ WaitPoll
    \/ Setup
    \/ Send
    \/ Final

SessionSpec == InitSession /\ [][NextSession]_vars /\ WF_vars(NextSession)

----------------------------------------------------------------------------
(* Vocabulary of the properties *)

Returned == pc = "return"

Submissions == 1..Len(subs)

\* The submission was classified Success or InformationalStatus: rc = 0, or a
\* positive code other than 26984 with a peer connected when inspected.
Delivered(s) ==
    \/ s.rc = 0
    \/ s.rc > 0 /\ s.rc # BackpressureCode /\ s.peers > 0

\* The submission was classified TransientBackpressure.
BackpressureSeen(s) == s.rc = BackpressureCode /\ s.peers > 0

\* The submission found no peer after a positive code.
PeerLossSeen(s) == s.rc > 0 /\ s.peers = 0

\* The session ended by reaching the end of its duration: it returned Ok and no
\* submission found the peer gone.
EndOfDuration ==
    /\ Returned
    /\ result = "Ok"
    /\ \A k \in Submissions : subs[k].peers # 0

DistinctTimestamps == { subs[k].ts : k \in Submissions }

----------------------------------------------------------------------------
(* C1 *)

\* C1: when run_send_test has returned and omt_send_create had given a
\* non-null handle, omt_send_destroy has been called on that handle exactly
\* once (and the handle is no longer live), whatever path ended the session.
DestroyedOnceOnReturn ==
    (Returned /\ sender # NULL) => (destroys = 1 /\ sender \notin live)

(* C2 *)

\* C2: at most one transport session is live (created, not destroyed) at any
\* time of a run.
AtMostOneLive == Cardinality(live) <= 1

(* C3 *)

\* C3: a session that ends by reaching the end of its duration has submitted
\* frames_to_send distinct Timestamps, however many backpressure results
\* there were.
EndOfDurationSendsAllFrames ==
    EndOfDuration => Cardinality(DistinctTimestamps) = frames_to_send

(* C4 *)

\* The transport returned 26984 exactly once, at submission k with a peer
\* connected, and 0 on every other submission.
BackpressureOnceAt(k) ==
    /\ BackpressureSeen(subs[k])
    /\ \A j \in Submissions \ {k} : subs[j].rc = 0

\* C4: when the session is over and the transport returned 26984 exactly once,
\* at frame i, the Timestamp of frame i was submitted a second time right
\* after, also when i is the last frame index; and unless i is the last frame
\* index the next larger Timestamp was submitted after that.
BackpressureResubmitsThenAdvances ==
    Returned =>
        \A k \in Submissions :
            BackpressureOnceAt(k) =>
                /\ Len(subs) >= k + 1
                /\ subs[k + 1].ts = subs[k].ts
                /\ subs[k].i + 1 < frames_to_send =>
                      /\ Len(subs) >= k + 2
                      /\ subs[k + 2].ts = subs[k].ts + ticks_per_frame

(* C5 *)

\* C5: run_send_test returns Ok only if the session reached the end of its
\* duration and at least one submission was classified Success or
\* InformationalStatus.
OkOnlyWithAcceptedFrame ==
    (Returned /\ result = "Ok") =>
        /\ i = frames_to_send
        /\ \E k \in Submissions : Delivered(subs[k])

(* C6 *)

\* C6: a submission that returned rc < 0 is the last one of its session, and
\* the session returns the error, whatever the connection count read after it.
NegativeCodeFailsSession ==
    \A k \in Submissions :
        subs[k].rc < 0 =>
            /\ k = Len(subs)
            /\ pc # "loop"
            /\ Returned => result = "omt_send failed"

(* C7 *)

\* C7: a submission that returned 0, or a positive code other than 26984 with
\* a peer connected, counts as delivered: the next Timestamp is one frame
\* later, the loop goes on to the next frame index (or ends, after the last),
\* and the session does not fail on it.  After rc = 0 the connection count is
\* not read.
DeliveredFrameAdvances ==
    \A k \in Submissions :
        /\ subs[k].rc = 0 => subs[k].peers = NotRead
        /\ Delivered(subs[k]) =>
              IF k < Len(subs)
              THEN /\ subs[k + 1].ts = subs[k].ts + ticks_per_frame
                   /\ subs[k + 1].i = subs[k].i + 1
              ELSE /\ pts = subs[k].ts + ticks_per_frame
                   /\ i = subs[k].i + 1
                   /\ result \in {"none", "Ok"}
                   /\ result = "none" =>
                         pc = (IF i < frames_to_send THEN "loop" ELSE "final")

\* INT_MAX, a code the table does not list, was returned with a peer connected
\* and the next frame followed one frame period later.
DeliveredWitness ==
    /\ Len(subs) >= 2
    /\ subs[1].rc = INT_MAX
    /\ subs[1].peers = 1
    /\ subs[2].ts = ticks_per_frame
    /\ ticks_per_frame > 0

(* C8 *)

\* C8: a submission that returned a positive code and then found no peer is the
\* last one of its session; the driver leaves the loop, reads the final
\* statistics, destroys the session and returns Ok.
PeerLossTruncates ==
    \A k \in Submissions :
        PeerLossSeen(subs[k]) =>
            /\ k = Len(subs)
            /\ pc \in {"final", "return"}
            /\ Returned =>
                  /\ result = "Ok"
                  /\ destroys = 1
                  /\ sender \notin live
                  /\ calls.getvideostatistics # << >>
                  /\ calls.getvideostatistics[Len(calls.getvideostatistics)] = k

PeerLossWitness ==
    /\ Returned
    /\ result = "Ok"
    /\ Len(subs) = 2
    /\ Len(subs) < frames_to_send
    /\ subs[2].rc = 1
    /\ subs[2].peers = 0

(* C9 *)

\* C9: within a session the Timestamps of successive submissions never
\* decrease, and two successive submissions carry the same Timestamp only when
\* the earlier one returned 26984; otherwise the later one is strictly larger.
TimestampsMonotonic ==
    \A k \in Submissions :
        k < Len(subs) =>
            /\ subs[k + 1].ts >= subs[k].ts
            /\ subs[k + 1].ts = subs[k].ts => subs[k].rc = BackpressureCode

TimestampsWitness ==
    /\ Len(subs) >= 3
    /\ subs[1].ts < subs[2].ts
    /\ subs[2].rc = BackpressureCode
    /\ subs[3].ts = subs[2].ts

(* C10 *)

\* Every submission of the session so far returned 0.
NoBackpressure == \A k \in Submissions : subs[k].rc = 0

\* n = floor(a / b), stated without division.
IsFloor(n, a, b) == n * b <= a /\ a < (n + 1) * b

\* C10: in a session whose every send returns 0, the k-th submission (from 0)
\* carries Timestamp k * D with D = floor(10^7 * den / num), and when the
\* session has returned, floor(duration * num / den) submissions were made.
PlainSessionTimestamps ==
    NoBackpressure =>
        /\ \A k \in Submissions :
              /\ IsFloor(ticks_per_frame, ticks_per_sec * format.fps_d, format.fps_n)
              /\ subs[k].ts = (k - 1) * ticks_per_frame
        /\ Returned /\ sender # NULL =>
              IsFloor(Len(subs), duration_secs * format.fps_n, format.fps_d)

\* 30/1 for 1 s: 30 submissions, the last with Timestamp 29 * 333,333.
PlainSessionWitness ==
    /\ Returned
    /\ NoBackpressure
    /\ format.fps_n = 30
    /\ format.fps_d = 1
    /\ duration_secs = 1
    /\ Len(subs) = 30
    /\ subs[30].ts = 9666657

----------------------------------------------------------------------------
(* The test runner *)

\* The names of the catalogue, in catalogue order.
CatalogueNames == [k \in 1..Len(formats) |-> formats[k].name]

\* The names of the cases the command line selects, in catalogue order.
SelectedNames ==
    IF arg = NoArg THEN CatalogueNames
    ELSE IF \E k \in 1..Len(formats) : formats[k].name = arg THEN <<arg>>
    ELSE << >>

IsFirstRun(a) == a[2] = FALSE

\* The names of the runs without alpha, in the order main made them.
FirstRunNames ==
    LET firsts == SelectSeq(attempted, IsFirstRun)
    IN  [k \in 1..Len(firsts) |-> firsts[k][1]]

IsPrefix(a, b) == Len(a) <= Len(b) /\ a = SubSeq(b, 1, Len(a))

IsBgraName(n) == \E k \in 1..Len(formats) : formats[k].name = n /\ formats[k].codec = "BGRA"

\* A session of main has failed with a fatal send code: its handle is left.
SomeCaseFailed == live # {}

\* C11: whatever each case returns, main attempts the selected cases once
\* each in catalogue order, never stops before its end, and exits with 0.
RunnerIsolatesFailures ==
    harness = "main" =>
        /\ IsPrefix(FirstRunNames, SelectedNames)
        /\ exit_code \in {-1, 0}
        /\ mpc # "exit" => ENABLED Next
        /\ mpc = "exit" => FirstRunNames = SelectedNames /\ exit_code = 0

\* C11: main has ended after all five cases, one of which failed.
RunnerIsolatesWitness ==
    /\ harness = "main"
    /\ mpc = "exit"
    /\ arg = NoArg
    /\ Len(FirstRunNames) = Len(formats)
    /\ SomeCaseFailed

\* C12: by the end of main every BGRA case that was run has been run again
\* with alpha, directly after its first run and whatever that run returned;
\* the other cases are run once and never with alpha.
AlphaRunFollowsEveryBgraRun ==
    (harness = "main" /\ mpc = "exit") =>
        \A k \in 1..Len(attempted) :
            IF attempted[k][2]
            THEN /\ IsBgraName(attempted[k][1])
                 /\ k > 1
                 /\ attempted[k - 1] = <<attempted[k][1], FALSE>>
            ELSE IsBgraName(attempted[k][1]) =>
                    /\ k < Len(attempted)
                    /\ attempted[k + 1] = <<attempted[k][1], TRUE>>

\* C13: a catalogue name on the command line runs that case only; another
\* word creates no session and exits with 0; no argument runs all five.
SelectionByName ==
    harness = "main" =>
        /\ \A k \in 1..Len(attempted) : arg # NoArg => attempted[k][1] = arg
        /\ SelectedNames = << >> =>
              /\ n_create = 0
              /\ attempted = << >>
              /\ pc = "idle"
              /\ mpc \in {"start", "exit"}
              /\ mpc = "exit" => exit_code = 0
        /\ n_create = Len(attempted)
              \/ (pc = "create" /\ n_create + 1 = Len(attempted))
        /\ mpc = "exit" => FirstRunNames = SelectedNames
        /\ mpc # "start" =>
              [k \in 1..Len(formats_to_test) |-> formats_to_test[k].name]
                 = SubSeq(SelectedNames, Len(FirstRunNames) + 1, Len(SelectedNames))

\* C13: main has ended having run the one case named on the command line.
SelectionWitness ==
    /\ harness = "main"
    /\ mpc = "exit"
    /\ arg = "UYVY_1080p30"
    /\ attempted = << <<"UYVY_1080p30", FALSE>> >>
    /\ n_create = 1

\* No transport call but omt_send_create has been made in this session.
NothingCalledAfterCreate ==
    /\ subs = << >>
    /\ calls = NoCalls
    /\ destroys = 0
    /\ wait_i = 0
    /\ ~connected
    /\ sender = NULL

\* C14: a null handle from omt_send_create makes run_send_test return its
\* error with no other transport call made, and main goes on with the next
\* case.
CreateFailureEndsCase ==
    /\ result = "omt_send_create failed" => NothingCalledAfterCreate
    /\ (pc = "return" /\ sender = NULL) => result = "omt_send_create failed"
    /\ (harness = "main" /\ result = "omt_send_create failed" /\ pc = "return") =>
          ENABLED (MainAfterFirst \/ MainAfterAlpha)
    /\ (harness = "main" /\ result = "omt_send_create failed" /\ pc = "idle") =>
          IF formats_to_test # << >>
          THEN mpc = "loop" /\ ENABLED MainRunFirst
          ELSE mpc \in {"loop", "exit"}

\* C14: the create of a case has failed and main is about to run the next.
CreateFailureWitness ==
    /\ harness = "main"
    /\ mpc = "loop"
    /\ pc = "idle"
    /\ result = "omt_send_create failed"
    /\ formats_to_test # << >>
    /\ n_create >= 1

----------------------------------------------------------------------------
(* Waiting for a receiver *)

----------------------------------------------------------------------------
(* The pattern buffer *)

\* The frame descriptor of this session has been filled in (lines 170-203).
FrameBuilt == frame.Codec # ""

\* The parity the encodings ask of the size.
ParityOk(f) ==
    /\ f.codec = "UYVY" => f.width % 2 = 0
    /\ f.codec = "NV12" => f.width % 2 = 0 /\ f.height % 2 = 0

KnownCodec(f) == f.codec \in {"UYVY", "BGRA", "NV12"}

\* The tabulated payload size.
PayloadSize(f) ==
    CASE f.codec = "UYVY" -> 2 * f.width * f.height
      [] f.codec = "BGRA" -> 4 * f.width * f.height
      [] f.codec = "NV12" -> (f.width * f.height) + ((f.width * f.height) \div 2)

\* C15: for UYVY, BGRA and NV12 in a size of the right parity the pattern
\* buffer has the tabulated payload size, and DataLength is the buffer length.
PayloadSizeIsTabulated ==
    (FrameBuilt /\ KnownCodec(format) /\ ParityOk(format)) =>
        /\ frame_buf = PayloadSize(format)
        /\ frame.DataLength = frame_buf
        /\ format.codec = "NV12" => 2 * frame_buf = 3 * format.width * format.height

\* C15: an NV12 frame of 4 x 2 has been built: 8 bytes of Y, 4 of UV.
PayloadSizeWitness ==
    /\ FrameBuilt
    /\ format.codec = "NV12"
    /\ format.width = 4
    /\ format.height = 2
    /\ frame_buf = 12
    /\ frame.DataLength = 12

\* C16: for an encoding other than UYVY, BGRA and NV12, and for a size of the
\* wrong parity, the pattern generator fails and returns no buffer: the
\* session builds no frame and submits none.
PatternGeneratorRejects ==
    (~KnownCodec(format) \/ ~ParityOk(format)) =>
        /\ ~FrameBuilt
        /\ frame_buf = 0
        /\ subs = << >>

----------------------------------------------------------------------------
(* Statistics *)

\* The number of frames of this session that were advanced.
AdvancedFrames == Cardinality({k \in Submissions : Delivered(subs[k])})

\* The reads of the statistics made inside the frame loop: all but the one
\* of the end of the session, which comes with the destroy.
PeriodicReads == Len(calls.getvideostatistics) - destroys

\* C20: the statistics are read once per num/den advanced frames: after a
\* advanced frames there have been floor(a * den / num) reads in the loop.
StatsOncePerRatePeriod ==
    FrameBuilt =>
        IsFloor(PeriodicReads, AdvancedFrames * format.fps_d, format.fps_n)

----------------------------------------------------------------------------
(* Pacing *)

\* The deadline the pacing step of submission k left behind.
DeadlineAfter(k) == IF k < Len(subs) THEN subs[k + 1].deadline ELSE next_frame_time

\* The lag the pacing step of submission k found: now - (p + T).
Lag(k) == subs[k].now - (subs[k].deadline + frame_duration)

\* C17: the pacing step after an advanced frame turns the deadline p into
\* p + T, except that a lag now - (p + T) above 2 * T turns it into now + T.
DeadlineUpdate ==
    \A k \in Submissions :
        Delivered(subs[k]) =>
            DeadlineAfter(k) =
                IF Lag(k) > 2 * frame_duration
                THEN subs[k].now + frame_duration
                ELSE subs[k].deadline + frame_duration

\* C17: one pacing step found a lag of exactly 2 * T and kept p + T, a later
\* one found a larger lag and reset the deadline.
DeadlineUpdateWitness ==
    /\ frame_duration > 0
    /\ \E j, k \in Submissions :
          /\ j < k
          /\ Delivered(subs[j])
          /\ Lag(j) = 2 * frame_duration
          /\ DeadlineAfter(j) = subs[j].deadline + frame_duration
          /\ Delivered(subs[k])
          /\ Lag(k) > 2 * frame_duration
          /\ DeadlineAfter(k) = subs[k].now + frame_duration

\* C18: the submission after an advanced frame is never made before the
\* deadline its pacing step left, a reset deadline included, and the first
\* deadline is the start of the session plus one period.
NoSubmissionBeforeDeadline ==
    /\ \A k \in Submissions :
          Delivered(subs[k]) =>
              IF k < Len(subs)
              THEN subs[k + 1].at >= subs[k + 1].deadline
              ELSE pc = "loop" => clock >= next_frame_time
    /\ (subs # << >> /\ Delivered(subs[1]) /\ Lag(1) <= 2 * frame_duration) =>
          DeadlineAfter(1) = start_time + frame_duration

----------------------------------------------------------------------------
(* Termination *)

\* C21: every session returns, whatever the transport returns, after at most
\* WaitAttempts connection reads of the wait and at most frames_to_send
\* submissions.
SessionTerminates ==
    /\ [](wait_i <= WaitAttempts /\ Len(subs) <= frames_to_send)
    /\ (pc = "create") ~> (pc = "return")

\* C21: the transport returned 26984 on every send, with a peer connected,
\* and the session has returned after frames_to_send submissions.
SessionTerminatesWitness ==
    /\ pc = "return"
    /\ frames_to_send >= 2
    /\ Len(subs) = frames_to_send
    /\ \A k \in Submissions : BackpressureSeen(subs[k])

----------------------------------------------------------------------------
(* The connection test and backpressure *)

\* The time at which the loop went on after submission k.
TimeAfter(k) == IF k < Len(subs) THEN subs[k + 1].at ELSE clock

\* C22: after every non-zero code the connection count is read before the
\* backpressure test: 26984 with no peer ends the loop with no sleep and the
\* session returns Ok; the 100 ms sleep follows 26984 only with a peer.
PeerCheckBeforeBackpressure ==
    \A k \in Submissions :
        /\ subs[k].rc # 0 => subs[k].peers # NotRead
        /\ (subs[k].rc = BackpressureCode /\ subs[k].peers = 0) =>
              /\ k = Len(subs)
              /\ TimeAfter(k) = subs[k].now
              /\ result \in {"none", "Ok"}
              /\ result = "none" => pc = "final"
        /\ (subs[k].rc = BackpressureCode /\ subs[k].peers > 0) =>
              /\ TimeAfter(k) = subs[k].now + BackpressureSleep
              /\ DeadlineAfter(k) = subs[k].deadline
              /\ (k = Len(subs) /\ result = "none") =>
                    pc = (IF i < frames_to_send THEN "loop" ELSE "final")

\* C22: after a retried backpressure, 26984 came with no peer connected and
\* the session returned Ok with frames still to send.
PeerCheckWitness ==
    /\ result = "Ok"
    /\ Len(subs) >= 2
    /\ Len(subs) < frames_to_send
    /\ BackpressureSeen(subs[1])
    /\ subs[Len(subs)].rc = BackpressureCode
    /\ subs[Len(subs)].peers = 0

----------------------------------------------------------------------------
(* Bounded lag *)

\* C23: right after the pacing step of an advanced frame the deadline is at
\* most two frame periods behind the time the step read.
BoundedLag ==
    \A k \in Submissions :
        Delivered(subs[k]) => subs[k].now - DeadlineAfter(k) <= 2 * frame_duration

\* C23: a pacing step left the deadline exactly two periods behind, and one
\* after a longer call left it ahead.
BoundedLagWitness ==
    /\ frame_duration > 0
    /\ \E j, k \in Submissions :
          /\ Delivered(subs[j])
          /\ subs[j].now - DeadlineAfter(j) = 2 * frame_duration
          /\ Delivered(subs[k])
          /\ subs[k].now - subs[k].at > 3 * frame_duration
          /\ DeadlineAfter(k) > subs[k].now

====
